---- MODULE Spec2Model ----
(***************************************************************************)
(* Model of the correlation bridge of figma-mcp-server (src/src/index.ts): *)
(* the control-plane tool handler, sendToFigma, handleFigmaResponse, the   *)
(* deadline timers and the WebSocket connection handlers.                  *)
(*                                                                         *)
(* Node.js runs every handler to completion, so each handler (together     *)
(* with the promise continuations it triggers) is one atomic action.       *)
(***************************************************************************)
EXTENDS Integers, Sequences, FiniteSets, TLC

\* ------------------------------------------------------------------ bounds
MaxCalls == 2      \* control-plane tool calls entered in one run
MaxConns == 2      \* WebSocket connections accepted in one run

\* --------------------------------------------------------------- constants
REQUEST_TIMEOUT == 5000

Null == 0                       \* serverState.figmaConnection === null
Conns == 1..MaxConns            \* WebSocket handles, in order of acceptance
Calls == 1..MaxCalls            \* tool calls, in order of entry
Ids == 1..MaxCalls              \* request ids minted by randomUUID()
StrayId == 0                    \* an id that randomUUID() never returned

Undefined == "undefined"        \* a field that is absent
DefaultMessage == "Hello from Claude Desktop!"

ToolNames == {"ping", "get_selection"}
ArgMessages == {Undefined, "", "hi"}

NotConnectedError ==
    "Figma plugin is not connected. Please open Figma and run the MCP plugin."
TimeoutError == "Request timeout: Figma did not respond within 5000ms"
SendFailureError == "Failed to send request to Figma: Error"
DisconnectedError == "Figma plugin disconnected"
UnknownFigmaError == "Unknown error from Figma"

\* ---------------------------------------------------------------- messages
\* Result payloads (response.data) and error texts (response.error).
DataValues == {Undefined, "hi"}
ErrorValues == {Undefined, "", "boom", DisconnectedError}

\* One inbound WebSocket frame.  kind is what JSON.parse and the type field
\* make of it: "badjson" is not JSON, "notype" is an object without a type
\* field, "welcome" is an object with a type the router does not know.
Frame(kind, id, success, data, error) ==
    [kind |-> kind, id |-> id, success |-> success, data |-> data,
     error |-> error]
ResultFrames ==
    {Frame("tool_response", id, TRUE, d, Undefined) :
        id \in Ids \cup {StrayId}, d \in DataValues}
    \cup {Frame("tool_response", id, FALSE, Undefined, e) :
        id \in Ids \cup {StrayId}, e \in ErrorValues}
\* An event frame has no id field of its own; the one delivered here carries
\* an extra id field equal to the first request id.
EventFrames ==
    {Frame("event", id, FALSE, Undefined, Undefined) : id \in {1}}
DroppedFrames ==
    {Frame(k, id, TRUE, "hi", Undefined) :
        k \in {"badjson", "notype", "welcome"}, id \in {1}}
Frames == ResultFrames \cup EventFrames \cup DroppedFrames

\* ------------------------------------------------------------------- state
VARIABLES
    mainPc,            \* position of main(): "start", "started", "ws", "ready",
                       \* "exited"
    useWebSocketOnly,  \* process.argv.includes('--websocket')
    listening,         \* startWebSocketServer() has run: httpServer.listen called
    bound,             \* the http server is bound to WS_PORT and accepts sockets
    stdio,             \* server.connect(StdioServerTransport) has run
    figmaConnection,   \* serverState.figmaConnection (Null or a handle)
    isConnected,       \* serverState.isConnected
    readyState,        \* serverState.figmaConnection.readyState: "OPEN" or
                       \* "CLOSING", and "CLOSED" when no handle is stored
    handles,           \* per WebSocket handle: "NONE" (not accepted yet),
                       \* "LIVE" (its handlers can run), "CLOSED" (its close
                       \* event has been delivered)
    pendingRequests,   \* serverState.pendingRequests: id -> PendingRequest
    timers,            \* armed setTimeout handles
    now,               \* the clock (Date.now()), in ms since start-up
    calls,             \* tool calls entered so far
    promise,           \* state of the promise sendToFigma returned per call
    settleCount,       \* resolve()/reject()/throw executions per call
    sent,              \* the tool_request frames handed to ws.send, in order
    welcomed,          \* the handles a welcome frame was sent on
    lastEvent          \* the handler that ran last: its kind; for a matched
                       \* Result its id and the handle it arrived on; for a
                       \* tool call its number, the stored handle, and the
                       \* message argument as received and as passed to
                       \* sendToFigma
VARIABLES
    received,          \* plugin: the messages figma.ui.onmessage has handled
    posted,            \* plugin: per handled message, the messages it passed
                       \* to figma.ui.postMessage, in order
    textJob,           \* plugin: the create_text_node call in progress: its
                       \* position, its fonts and the text node it created
    scanJob            \* plugin: the scan_frame call in progress: the node
                       \* tree, depth and filter it was given and its result

vars == <<mainPc, useWebSocketOnly, listening, bound, stdio, figmaConnection,
          isConnected, readyState, handles, pendingRequests, timers, now,
          calls, promise, settleCount, sent, welcomed, lastEvent,
          received, posted, textJob, scanJob>>

mainVars == <<mainPc, useWebSocketOnly, listening, bound, stdio>>
connVars == <<figmaConnection, isConnected, readyState, handles>>
tableVars == <<pendingRequests, timers>>
callVars == <<calls, promise, settleCount>>
sendVars == <<sent, welcomed>>
pluginVars == <<received, posted, textJob, scanJob>>

NoArgs == <<Undefined, Undefined>>
Event(type, conn, id, arg) ==
    [type |-> type, conn |-> conn, id |-> id, arg |-> arg]

\* ----------------------------------------------------------------- helpers
Pending == [state |-> "pending", value |-> Undefined]
NotCalled == [state |-> "none", value |-> Undefined]
Fulfilled(v) == [state |-> "fulfilled", value |-> v]
Rejected(e) == [state |-> "rejected", value |-> e]

\* A promise keeps its first settlement; later resolve/reject calls on it
\* are ignored by the runtime.
Settle(p, outcome) == IF p.state = "pending" THEN outcome ELSE p

MapDelete(m, id) == [i \in DOMAIN m \ {id} |-> m[i]]
MapSet(m, id, v) == [i \in DOMAIN m \cup {id} |-> IF i = id THEN v ELSE m[i]]

\* isFigmaConnected without the readyState test.
isFigmaConnected_HandleOnly == figmaConnection # Null

isFigmaConnected ==
    /\ figmaConnection # Null
    /\ readyState = "OPEN"

\* An id generator that numbers a request by the entries now pending: the
\* id of a call that has been resolved is handed out again.
randomUUID_PendingCount == Cardinality(DOMAIN pendingRequests) + 1

\* The ids randomUUID() has returned so far, and the next one: every call
\* of it returns an id it has not returned before.
MintedIds == {calls[k].requestId : k \in DOMAIN calls} \ {StrayId}
randomUUID == Cardinality(MintedIds) + 1

Init ==
    /\ mainPc = "start"
    /\ useWebSocketOnly \in BOOLEAN
    /\ listening = FALSE
    /\ bound = FALSE
    /\ stdio = FALSE
    /\ figmaConnection = Null
    /\ isConnected = FALSE
    /\ readyState = "CLOSED"
    /\ handles = [c \in Conns |-> "NONE"]
    /\ pendingRequests = << >>
    /\ timers = {}
    /\ now = 0
    /\ calls = << >>
    /\ promise = << >>
    /\ settleCount = << >>
    /\ sent = << >>
    /\ welcomed = {}
    /\ lastEvent = Event("init", Null, 0, NoArgs)
    /\ received = << >>
    /\ posted = << >>
    /\ textJob = [pc |-> "idle"]
    /\ scanJob = [pc |-> "idle"]

\* ------------------------------------------------------------- sendToFigma
\* The handle setTimeout(callback, delay) returns: the callback rejects call
\* k and deletes entry id, and runs no earlier than due = now + delay.
Timer(id, k, due) == [id |-> id, call |-> k, due |-> due]

\* The PendingRequest stored under id: resolve and reject are the functions
\* of call k's promise, timeout is the handle setTimeout returned.  conn is
\* not a field of the source's record: it remembers the handle the request
\* was sent on.
PendingRequest(id, toolName, k, timeout) ==
    [id |-> id, toolName |-> toolName, timestamp |-> now, call |-> k,
     timeout |-> timeout, conn |-> figmaConnection]

\* An outbound tool_request; ok is whether ws.send returned normally.  The
\* args are opaque to the bridge and are not part of the record.
ToolRequest(id, toolName, ok) ==
    [type |-> "tool_request", id |-> id, tool |-> toolName, ok |-> ok]

\* sendToFigma without the setTimeout that arms the deadline.
sendToFigma_NoTimer(k, toolName, message, sendThrows) ==
    IF ~isFigmaConnected
    THEN /\ promise' = Append(promise, Rejected(NotConnectedError))
         /\ settleCount' = Append(settleCount, 1)
         /\ calls' = Append(calls, [name |-> toolName,
                                    requestId |-> StrayId])
         /\ UNCHANGED <<pendingRequests, timers, sent>>
    ELSE LET requestId == randomUUID
             timeout == Timer(requestId, k, now + REQUEST_TIMEOUT)
             armed == timers
             stored == MapSet(pendingRequests, requestId,
                              PendingRequest(requestId, toolName, k, timeout))
         IN  /\ calls' = Append(calls, [name |-> toolName,
                                        requestId |-> requestId])
             /\ sent' = Append(sent, ToolRequest(requestId, toolName,
                                                 ~sendThrows))
             /\ IF sendThrows
                THEN /\ timers' = armed \ {timeout}
                     /\ pendingRequests' = MapDelete(stored, requestId)
                     /\ promise' = Append(promise, Rejected(SendFailureError))
                     /\ settleCount' = Append(settleCount, 1)
                ELSE /\ timers' = armed
                     /\ pendingRequests' = stored
                     /\ promise' = Append(promise, Pending)
                     /\ settleCount' = Append(settleCount, 0)

\* sendToFigma whose catch block lacks clearTimeout(timeout).
sendToFigma_NoRollback(k, toolName, message, sendThrows) ==
    IF ~isFigmaConnected
    THEN /\ promise' = Append(promise, Rejected(NotConnectedError))
         /\ settleCount' = Append(settleCount, 1)
         /\ calls' = Append(calls, [name |-> toolName,
                                    requestId |-> StrayId])
         /\ UNCHANGED <<pendingRequests, timers, sent>>
    ELSE LET requestId == randomUUID
             timeout == Timer(requestId, k, now + REQUEST_TIMEOUT)
             armed == timers \cup {timeout}
             stored == MapSet(pendingRequests, requestId,
                              PendingRequest(requestId, toolName, k, timeout))
         IN  /\ calls' = Append(calls, [name |-> toolName,
                                        requestId |-> requestId])
             /\ sent' = Append(sent, ToolRequest(requestId, toolName,
                                                 ~sendThrows))
             /\ IF sendThrows
                THEN /\ timers' = armed
                     /\ pendingRequests' = MapDelete(stored, requestId)
                     /\ promise' = Append(promise, Rejected(SendFailureError))
                     /\ settleCount' = Append(settleCount, 1)
                ELSE /\ timers' = armed
                     /\ pendingRequests' = stored
                     /\ promise' = Append(promise, Pending)
                     /\ settleCount' = Append(settleCount, 0)

\* sendToFigma that sends the request a second time when ws.send throws,
\* and keeps the call registered.
sendToFigma_Retry(k, toolName, message, sendThrows) ==
    IF ~isFigmaConnected
    THEN /\ promise' = Append(promise, Rejected(NotConnectedError))
         /\ settleCount' = Append(settleCount, 1)
         /\ calls' = Append(calls, [name |-> toolName,
                                    requestId |-> StrayId])
         /\ UNCHANGED <<pendingRequests, timers, sent>>
    ELSE LET requestId == randomUUID
             timeout == Timer(requestId, k, now + REQUEST_TIMEOUT)
         IN  /\ calls' = Append(calls, [name |-> toolName,
                                        requestId |-> requestId])
             /\ sent' = IF sendThrows
                        THEN sent \o <<ToolRequest(requestId, toolName, FALSE),
                                       ToolRequest(requestId, toolName, TRUE)>>
                        ELSE Append(sent, ToolRequest(requestId, toolName, TRUE))
             /\ timers' = timers \cup {timeout}
             /\ pendingRequests' =
                    MapSet(pendingRequests, requestId,
                           PendingRequest(requestId, toolName, k, timeout))
             /\ promise' = Append(promise, Pending)
             /\ settleCount' = Append(settleCount, 0)

\* sendToFigma writing its envelope ahead of the envelopes written before
\* it instead of after them.
sendToFigma_Prepend(k, toolName, message, sendThrows) ==
    IF ~isFigmaConnected
    THEN /\ promise' = Append(promise, Rejected(NotConnectedError))
         /\ settleCount' = Append(settleCount, 1)
         /\ calls' = Append(calls, [name |-> toolName,
                                    requestId |-> StrayId])
         /\ UNCHANGED <<pendingRequests, timers, sent>>
    ELSE LET requestId == randomUUID
             timeout == Timer(requestId, k, now + REQUEST_TIMEOUT)
             armed == timers \cup {timeout}
             stored == MapSet(pendingRequests, requestId,
                              PendingRequest(requestId, toolName, k, timeout))
         IN  /\ calls' = Append(calls, [name |-> toolName,
                                        requestId |-> requestId])
             /\ sent' = <<ToolRequest(requestId, toolName, ~sendThrows)>>
                            \o sent
             /\ IF sendThrows
                THEN /\ timers' = armed \ {timeout}
                     /\ pendingRequests' = MapDelete(stored, requestId)
                     /\ promise' = Append(promise, Rejected(SendFailureError))
                     /\ settleCount' = Append(settleCount, 1)
                ELSE /\ timers' = armed
                     /\ pendingRequests' = stored
                     /\ promise' = Append(promise, Pending)
                     /\ settleCount' = Append(settleCount, 0)

\* sendToFigma without the isFigmaConnected test in front: it registers
\* and sends on whatever handle is stored.
sendToFigma_NoCheck(k, toolName, message, sendThrows) ==
    LET requestId == randomUUID
        timeout == Timer(requestId, k, now + REQUEST_TIMEOUT)
        armed == timers \cup {timeout}
        stored == MapSet(pendingRequests, requestId,
                         PendingRequest(requestId, toolName, k, timeout))
    IN  /\ calls' = Append(calls, [name |-> toolName,
                                   requestId |-> requestId])
        /\ sent' = Append(sent, ToolRequest(requestId, toolName,
                                            ~sendThrows))
        /\ IF sendThrows
           THEN /\ timers' = armed \ {timeout}
                /\ pendingRequests' = MapDelete(stored, requestId)
                /\ promise' = Append(promise, Rejected(SendFailureError))
                /\ settleCount' = Append(settleCount, 1)
           ELSE /\ timers' = armed
                /\ pendingRequests' = stored
                /\ promise' = Append(promise, Pending)
                /\ settleCount' = Append(settleCount, 0)

\* sendToFigma(toolName, {message}) for call k; sendThrows is whether
\* ws.send (or JSON.stringify) throws.
sendToFigma(k, toolName, message, sendThrows) ==
    IF ~isFigmaConnected
    THEN /\ promise' = Append(promise, Rejected(NotConnectedError))
         /\ settleCount' = Append(settleCount, 1)
         /\ calls' = Append(calls, [name |-> toolName,
                                    requestId |-> StrayId])
         /\ UNCHANGED <<pendingRequests, timers, sent>>
    ELSE LET requestId == randomUUID
             timeout == Timer(requestId, k, now + REQUEST_TIMEOUT)
             armed == timers \cup {timeout}
             stored == MapSet(pendingRequests, requestId,
                              PendingRequest(requestId, toolName, k, timeout))
         IN  /\ calls' = Append(calls, [name |-> toolName,
                                        requestId |-> requestId])
             /\ sent' = Append(sent, ToolRequest(requestId, toolName,
                                                 ~sendThrows))
             /\ IF sendThrows
                THEN /\ timers' = armed \ {timeout}
                     /\ pendingRequests' = MapDelete(stored, requestId)
                     /\ promise' = Append(promise, Rejected(SendFailureError))
                     /\ settleCount' = Append(settleCount, 1)
                ELSE /\ timers' = armed
                     /\ pendingRequests' = stored
                     /\ promise' = Append(promise, Pending)
                     /\ settleCount' = Append(settleCount, 0)

\* The timeout callback without its pendingRequests.delete(requestId).
TimeoutFire_KeepEntry(t) ==
    /\ mainPc # "exited"
    /\ t \in timers
    /\ now' = IF now < t.due THEN t.due ELSE now
    /\ timers' = timers \ {t}
    /\ pendingRequests' = pendingRequests
    /\ promise' = [promise EXCEPT ![t.call] = Settle(@, Rejected(TimeoutError))]
    /\ settleCount' = [settleCount EXCEPT ![t.call] = @ + 1]
    /\ lastEvent' = Event("timeout", Null, 0, NoArgs)
    /\ UNCHANGED <<pluginVars, mainVars, connVars, calls, sendVars>>

\* The timeout callback also writing a cancel envelope for the request to
\* the data plane.
TimeoutFire_SendCancel(t) ==
    /\ mainPc # "exited"
    /\ t \in timers
    /\ now' = IF now < t.due THEN t.due ELSE now
    /\ timers' = timers \ {t}
    /\ pendingRequests' = MapDelete(pendingRequests, t.id)
    /\ promise' = [promise EXCEPT ![t.call] = Settle(@, Rejected(TimeoutError))]
    /\ settleCount' = [settleCount EXCEPT ![t.call] = @ + 1]
    /\ sent' = Append(sent, [type |-> "tool_cancel", id |-> t.id,
                             tool |-> Undefined, ok |-> TRUE])
    /\ lastEvent' = Event("timeout", Null, 0, NoArgs)
    /\ UNCHANGED <<pluginVars, mainVars, connVars, calls, welcomed>>

\* The setTimeout callback of sendToFigma.  The event loop runs it once the
\* clock has reached t.due: if the clock is behind, it waits until then.
TimeoutFire(t) ==
    /\ mainPc # "exited"
    /\ t \in timers
    /\ now' = IF now < t.due THEN t.due ELSE now
    /\ timers' = timers \ {t}
    /\ pendingRequests' = MapDelete(pendingRequests, t.id)
    /\ promise' = [promise EXCEPT ![t.call] = Settle(@, Rejected(TimeoutError))]
    /\ settleCount' = [settleCount EXCEPT ![t.call] = @ + 1]
    /\ lastEvent' = Event("timeout", Null, 0, NoArgs)
    /\ UNCHANGED <<pluginVars, mainVars, connVars, calls, sendVars>>

\* ----------------------------------------------------- handleFigmaResponse
\* handleFigmaResponse without its clearTimeout(pending.timeout).
handleFigmaResponse_NoClearTimeout(response) ==
    IF response.id \notin DOMAIN pendingRequests
    THEN UNCHANGED <<pendingRequests, timers, promise, settleCount>>
    ELSE LET pending == pendingRequests[response.id]
         IN  /\ timers' = timers
             /\ pendingRequests' = MapDelete(pendingRequests, response.id)
             /\ settleCount' = [settleCount EXCEPT ![pending.call] = @ + 1]
             /\ promise' = [promise EXCEPT ![pending.call] =
                    IF response.success
                    THEN Settle(@, Fulfilled(response.data))
                    ELSE Settle(@, Rejected(
                            IF response.error \in {Undefined, ""}
                            THEN UnknownFigmaError ELSE response.error))]

\* handleFigmaResponse settling the oldest pending request (by send order)
\* instead of the one stored under response.id.
handleFigmaResponse_Oldest(response) ==
    IF response.id \notin DOMAIN pendingRequests
    THEN UNCHANGED <<pendingRequests, timers, promise, settleCount>>
    ELSE LET oldest == CHOOSE i \in DOMAIN pendingRequests :
                           \A j \in DOMAIN pendingRequests : i <= j
             pending == pendingRequests[oldest]
         IN  /\ timers' = timers \ {pending.timeout}
             /\ pendingRequests' = MapDelete(pendingRequests, oldest)
             /\ settleCount' = [settleCount EXCEPT ![pending.call] = @ + 1]
             /\ promise' = [promise EXCEPT ![pending.call] =
                    IF response.success
                    THEN Settle(@, Fulfilled(response.data))
                    ELSE Settle(@, Rejected(
                            IF response.error \in {Undefined, ""}
                            THEN UnknownFigmaError ELSE response.error))]

\* handleFigmaResponse calling pending.resolve() without response.data.
handleFigmaResponse_ResolveNothing(response) ==
    IF response.id \notin DOMAIN pendingRequests
    THEN UNCHANGED <<pendingRequests, timers, promise, settleCount>>
    ELSE LET pending == pendingRequests[response.id]
         IN  /\ timers' = timers \ {pending.timeout}
             /\ pendingRequests' = MapDelete(pendingRequests, response.id)
             /\ settleCount' = [settleCount EXCEPT ![pending.call] = @ + 1]
             /\ promise' = [promise EXCEPT ![pending.call] =
                    IF response.success
                    THEN Settle(@, Fulfilled(Undefined))
                    ELSE Settle(@, Rejected(
                            IF response.error \in {Undefined, ""}
                            THEN UnknownFigmaError ELSE response.error))]

\* handleFigmaResponse without the "Unknown error from Figma" fallback.
handleFigmaResponse_NoFallback(response) ==
    IF response.id \notin DOMAIN pendingRequests
    THEN UNCHANGED <<pendingRequests, timers, promise, settleCount>>
    ELSE LET pending == pendingRequests[response.id]
         IN  /\ timers' = timers \ {pending.timeout}
             /\ pendingRequests' = MapDelete(pendingRequests, response.id)
             /\ settleCount' = [settleCount EXCEPT ![pending.call] = @ + 1]
             /\ promise' = [promise EXCEPT ![pending.call] =
                    IF response.success
                    THEN Settle(@, Fulfilled(response.data))
                    ELSE Settle(@, Rejected(response.error))]

\* handleFigmaResponse without its pendingRequests.delete(response.id).
handleFigmaResponse_NoDelete(response) ==
    IF response.id \notin DOMAIN pendingRequests
    THEN UNCHANGED <<pendingRequests, timers, promise, settleCount>>
    ELSE LET pending == pendingRequests[response.id]
         IN  /\ timers' = timers \ {pending.timeout}
             /\ pendingRequests' = pendingRequests
             /\ settleCount' = [settleCount EXCEPT ![pending.call] = @ + 1]
             /\ promise' = [promise EXCEPT ![pending.call] =
                    IF response.success
                    THEN Settle(@, Fulfilled(response.data))
                    ELSE Settle(@, Rejected(
                            IF response.error \in {Undefined, ""}
                            THEN UnknownFigmaError ELSE response.error))]

\* handleFigmaResponse(response): response is a parsed tool_response.
handleFigmaResponse(response) ==
    IF response.id \notin DOMAIN pendingRequests
    THEN UNCHANGED <<pendingRequests, timers, promise, settleCount>>
    ELSE LET pending == pendingRequests[response.id]
         IN  /\ timers' = timers \ {pending.timeout}
             /\ pendingRequests' = MapDelete(pendingRequests, response.id)
             /\ settleCount' = [settleCount EXCEPT ![pending.call] = @ + 1]
             /\ promise' = [promise EXCEPT ![pending.call] =
                    IF response.success
                    THEN Settle(@, Fulfilled(response.data))
                    ELSE Settle(@, Rejected(
                            IF response.error \in {Undefined, ""}
                            THEN UnknownFigmaError ELSE response.error))]

\* ------------------------------------------------------ CallTool handler
\* The text result the handler returns for a call, from the outcome of its
\* sendToFigma promise.  Reading result.message of an undefined result
\* throws inside the try block.
ErrorResult(name, errorMessage) ==
    [isError |-> TRUE,
     text |-> <<"Error executing tool \"", name, "\": ", errorMessage>>]
PongResult(result) ==
    [isError |-> FALSE,
     text |-> <<"PONG! Full round-trip successful!", result>>]
NoResult == [isError |-> FALSE, text |-> << >>]

\* The tool handler without its try/catch: what the catch block turns into
\* an isError result leaves the handler as a thrown error instead.
CallToolResult_NoCatch(k) ==
    LET call == calls[k]
        p == promise[k]
    IN  IF call.name # "ping"
        THEN [thrown |-> "Unknown tool: " \o call.name]
        ELSE CASE p.state = "pending" -> NoResult
               [] p.state = "rejected" -> [thrown |-> p.value]
               [] p.state = "fulfilled" ->
                    IF p.value = Undefined
                    THEN [thrown |->
                          "Cannot read properties of undefined (reading 'message')"]
                    ELSE PongResult(p.value)

\* What the tool handler returns for call k (NoResult while it still awaits
\* sendToFigma).
CallToolResult(k) ==
    LET call == calls[k]
        p == promise[k]
    IN  IF call.name # "ping"
        THEN ErrorResult(call.name, "Unknown tool: " \o call.name)
        ELSE CASE p.state = "pending" -> NoResult
               [] p.state = "rejected" -> ErrorResult(call.name, p.value)
               [] p.state = "fulfilled" ->
                    IF p.value = Undefined
                    THEN ErrorResult(call.name,
                          "Cannot read properties of undefined (reading 'message')")
                    ELSE PongResult(p.value)

\* The tool handler forwarding every name to sendToFigma, with no test of
\* the name.
CallTool_AnyName(name, argMessage, sendThrows) ==
    /\ mainPc = "ready"
    /\ stdio
    /\ bound
    /\ Len(calls) < MaxCalls
    /\ LET k == Len(calls) + 1
           message == IF argMessage \in {Undefined, ""}
                      THEN DefaultMessage ELSE argMessage
       IN  /\ IF name \in ToolNames
              THEN sendToFigma(k, name, message, sendThrows)
              ELSE /\ calls' = Append(calls, [name |-> name,
                                                   requestId |-> StrayId])
                   /\ promise' = Append(promise, NotCalled)
                   /\ settleCount' = Append(settleCount, 0)
                   /\ UNCHANGED <<pendingRequests, timers, sent>>
           /\ lastEvent' = Event("call", figmaConnection, k,
                                  <<argMessage, message>>)
    /\ UNCHANGED <<pluginVars, now, mainVars, connVars, welcomed>>

\* A catalog that also lists a tool the call handler does not dispatch.
ListedTools_WithSelection == {"ping", "get_selection"}

\* The names of the tools the ListTools handler returns.
ListedTools == {"ping"}

\* server.setRequestHandler(ListToolsRequestSchema, ...): returns the fixed
\* catalog; it reads and writes no server state.
ListTools ==
    /\ mainPc = "ready"
    /\ stdio
    /\ bound
    /\ lastEvent' = Event("list", Null, 0, NoArgs)
    /\ UNCHANGED <<pluginVars, now, mainVars, connVars, tableVars, callVars, sendVars>>

\* server.setRequestHandler(CallToolRequestSchema, ...) entered with tool
\* name and arguments {message: argMessage}.
CallTool(name, argMessage, sendThrows) ==
    /\ mainPc = "ready"
    /\ stdio
    /\ bound
    /\ Len(calls) < MaxCalls
    /\ LET k == Len(calls) + 1
           message == IF argMessage \in {Undefined, ""}
                      THEN DefaultMessage ELSE argMessage
       IN  /\ IF name = "ping"
              THEN sendToFigma(k, "ping", message, sendThrows)
              ELSE /\ calls' = Append(calls, [name |-> name,
                                                   requestId |-> StrayId])
                   /\ promise' = Append(promise, NotCalled)
                   /\ settleCount' = Append(settleCount, 0)
                   /\ UNCHANGED <<pendingRequests, timers, sent>>
           /\ lastEvent' = Event("call", figmaConnection, k,
                                  <<argMessage, message>>)
    /\ UNCHANGED <<pluginVars, now, mainVars, connVars, welcomed>>

\* ------------------------------------------------- WebSocket server events
\* The connection handler rejecting the calls pending on the handle it
\* replaces.
OnConnection_FailPending(ws) ==
    /\ mainPc \in {"ws", "ready"}
    /\ bound
    /\ handles[ws] = "NONE"
    /\ \A c \in Conns : c < ws => handles[c] # "NONE"
    /\ handles' = [handles EXCEPT ![ws] = "LIVE"]
    /\ readyState' = "OPEN"
    /\ figmaConnection' = ws
    /\ isConnected' = TRUE
    /\ welcomed' = welcomed \cup {ws}
    /\ LET rejected == {pendingRequests[id].call : id \in DOMAIN pendingRequests}
       IN  /\ timers' = {}
           /\ promise' = [k \in DOMAIN promise |->
                             IF k \in rejected
                             THEN Settle(promise[k], Rejected(DisconnectedError))
                             ELSE promise[k]]
           /\ settleCount' = [k \in DOMAIN settleCount |->
                             IF k \in rejected THEN settleCount[k] + 1
                             ELSE settleCount[k]]
           /\ pendingRequests' = << >>
    /\ lastEvent' = Event("connection", ws, 0, NoArgs)
    /\ UNCHANGED <<pluginVars, now, mainVars, calls, sent>>

\* wss.on("connection", ws): ws is the next unused handle.
OnConnection(ws) ==
    /\ mainPc \in {"ws", "ready"}
    /\ bound
    /\ handles[ws] = "NONE"
    /\ \A c \in Conns : c < ws => handles[c] # "NONE"
    /\ handles' = [handles EXCEPT ![ws] = "LIVE"]
    /\ readyState' = "OPEN"
    /\ figmaConnection' = ws
    /\ isConnected' = TRUE
    /\ welcomed' = welcomed \cup {ws}
    /\ UNCHANGED sent
    /\ lastEvent' = Event("connection", ws, 0, NoArgs)
    /\ UNCHANGED <<pluginVars, now, mainVars, tableVars, callVars>>

\* What the message handler logs for message on handle ws: the kind of the
\* frame, and for a Result whether its id has an entry, had one, or never
\* had one.
MessageEvent(ws, message) ==
    CASE message.kind = "tool_response"
              /\ message.id \in DOMAIN pendingRequests ->
           Event("tool_response", ws, message.id, NoArgs)
      [] message.kind = "tool_response"
              /\ message.id \notin DOMAIN pendingRequests ->
           Event(IF message.id \in MintedIds THEN "late_response"
                 ELSE "stray_response", Null, 0, NoArgs)
      [] message.kind = "event" -> Event("event", Null, 0, NoArgs)
      [] OTHER -> Event("dropped", Null, 0, NoArgs)

\* The message handler passing every parsed object that is not an event to
\* handleFigmaResponse, whatever its type field.
OnMessage_RouteUnknown(ws, message) ==
    /\ mainPc # "exited"
    /\ handles[ws] = "LIVE"
    /\ IF message.kind \in {"tool_response", "notype", "welcome"}
       THEN handleFigmaResponse(message)
       ELSE UNCHANGED <<pendingRequests, timers, promise, settleCount>>
    /\ lastEvent' = MessageEvent(ws, message)
    /\ UNCHANGED <<pluginVars, now, mainVars, connVars, calls, sendVars>>

\* The message handler passing events to handleFigmaResponse too.
OnMessage_EventAsResponse(ws, message) ==
    /\ mainPc # "exited"
    /\ handles[ws] = "LIVE"
    /\ IF message.kind \in {"tool_response", "event"}
       THEN handleFigmaResponse(message)
       ELSE UNCHANGED <<pendingRequests, timers, promise, settleCount>>
    /\ lastEvent' = MessageEvent(ws, message)
    /\ UNCHANGED <<pluginVars, now, mainVars, connVars, calls, sendVars>>

\* The message handler without its try/catch: the SyntaxError JSON.parse
\* throws for a frame that is not JSON is uncaught and ends the process.
OnMessage_NoCatch(ws, message) ==
    /\ mainPc # "exited"
    /\ handles[ws] = "LIVE"
    /\ IF message.kind = "tool_response"
       THEN handleFigmaResponse(message)
       ELSE UNCHANGED <<pendingRequests, timers, promise, settleCount>>
    /\ IF message.kind = "badjson"
       THEN /\ mainPc' = "exited"
            /\ lastEvent' = Event("exit", Null, 0, NoArgs)
            /\ UNCHANGED <<useWebSocketOnly, listening, bound, stdio>>
       ELSE /\ lastEvent' = MessageEvent(ws, message)
            /\ UNCHANGED mainVars
    /\ UNCHANGED <<pluginVars, now, connVars, calls, sendVars>>

\* The message handler routing a Result to handleFigmaResponse only when it
\* arrived on the stored handle.
OnMessage_CurrentOnly(ws, message) ==
    /\ mainPc # "exited"
    /\ handles[ws] = "LIVE"
    /\ IF message.kind = "tool_response" /\ ws = figmaConnection
       THEN handleFigmaResponse(message)
       ELSE UNCHANGED <<pendingRequests, timers, promise, settleCount>>
    /\ lastEvent' = MessageEvent(ws, message)
    /\ UNCHANGED <<pluginVars, now, mainVars, connVars, calls, sendVars>>

\* ws.on("message", message) on handle ws.
OnMessage(ws, message) ==
    /\ mainPc # "exited"
    /\ handles[ws] = "LIVE"
    /\ IF message.kind = "tool_response"
       THEN handleFigmaResponse(message)
       ELSE UNCHANGED <<pendingRequests, timers, promise, settleCount>>
    /\ lastEvent' = MessageEvent(ws, message)
    /\ UNCHANGED <<pluginVars, now, mainVars, connVars, calls, sendVars>>

\* The close handler without clearTimeout(pending.timeout).
OnClose_NoClearTimeout(ws) ==
    /\ mainPc # "exited"
    /\ handles[ws] = "LIVE"
    /\ handles' = [handles EXCEPT ![ws] = "CLOSED"]
    /\ readyState' = "CLOSED"
    /\ figmaConnection' = Null
    /\ isConnected' = FALSE
    /\ LET rejected == {pendingRequests[id].call : id \in DOMAIN pendingRequests}
       IN  /\ timers' = timers
           /\ promise' = [k \in DOMAIN promise |->
                             IF k \in rejected
                             THEN Settle(promise[k], Rejected(DisconnectedError))
                             ELSE promise[k]]
           /\ settleCount' = [k \in DOMAIN settleCount |->
                             IF k \in rejected THEN settleCount[k] + 1
                             ELSE settleCount[k]]
           /\ pendingRequests' = << >>
    /\ lastEvent' = Event("close", Null, 0, NoArgs)
    /\ UNCHANGED <<pluginVars, now, mainVars, calls, sendVars>>

\* The close handler without serverState.isConnected = false.
OnClose_KeepFlag(ws) ==
    /\ mainPc # "exited"
    /\ handles[ws] = "LIVE"
    /\ handles' = [handles EXCEPT ![ws] = "CLOSED"]
    /\ readyState' = "CLOSED"
    /\ figmaConnection' = Null
    /\ isConnected' = isConnected
    /\ LET rejected == {pendingRequests[id].call : id \in DOMAIN pendingRequests}
       IN  /\ timers' = timers \ {pendingRequests[id].timeout :
                                     id \in DOMAIN pendingRequests}
           /\ promise' = [k \in DOMAIN promise |->
                             IF k \in rejected
                             THEN Settle(promise[k], Rejected(DisconnectedError))
                             ELSE promise[k]]
           /\ settleCount' = [k \in DOMAIN settleCount |->
                             IF k \in rejected THEN settleCount[k] + 1
                             ELSE settleCount[k]]
           /\ pendingRequests' = << >>
    /\ lastEvent' = Event("close", Null, 0, NoArgs)
    /\ UNCHANGED <<pluginVars, now, mainVars, calls, sendVars>>

\* ws.on("close") on handle ws.
OnClose(ws) ==
    /\ mainPc # "exited"
    /\ handles[ws] = "LIVE"
    /\ handles' = [handles EXCEPT ![ws] = "CLOSED"]
    /\ readyState' = "CLOSED"
    /\ figmaConnection' = Null
    /\ isConnected' = FALSE
    /\ LET rejected == {pendingRequests[id].call : id \in DOMAIN pendingRequests}
       IN  /\ timers' = timers \ {pendingRequests[id].timeout :
                                     id \in DOMAIN pendingRequests}
           /\ promise' = [k \in DOMAIN promise |->
                             IF k \in rejected
                             THEN Settle(promise[k], Rejected(DisconnectedError))
                             ELSE promise[k]]
           /\ settleCount' = [k \in DOMAIN settleCount |->
                             IF k \in rejected THEN settleCount[k] + 1
                             ELSE settleCount[k]]
           /\ pendingRequests' = << >>
    /\ lastEvent' = Event("close", Null, 0, NoArgs)
    /\ UNCHANGED <<pluginVars, now, mainVars, calls, sendVars>>

\* ws.on("error") on handle ws: logs only.
OnError(ws) ==
    /\ mainPc # "exited"
    /\ handles[ws] = "LIVE"
    /\ lastEvent' = Event("error", Null, 0, NoArgs)
    /\ UNCHANGED <<pluginVars, now, mainVars, connVars, tableVars, callVars, sendVars>>

\* The transport leaving OPEN treated as a connection loss: every pending
\* call is rejected at once.
TransportClosing_FailPending ==
    /\ mainPc # "exited"
    /\ figmaConnection # Null
    /\ handles[figmaConnection] = "LIVE"
    /\ readyState = "OPEN"
    /\ readyState' = "CLOSING"
    /\ LET rejected == {pendingRequests[id].call : id \in DOMAIN pendingRequests}
       IN  /\ timers' = {}
           /\ promise' = [k \in DOMAIN promise |->
                             IF k \in rejected
                             THEN Settle(promise[k], Rejected(DisconnectedError))
                             ELSE promise[k]]
           /\ settleCount' = [k \in DOMAIN settleCount |->
                             IF k \in rejected THEN settleCount[k] + 1
                             ELSE settleCount[k]]
           /\ pendingRequests' = << >>
    /\ lastEvent' = Event("closing", figmaConnection, 0, NoArgs)
    /\ UNCHANGED <<pluginVars, now, mainVars, figmaConnection, isConnected,
                   handles, calls, sendVars>>

\* The transport of the stored handle stops being open (its readyState
\* leaves OPEN) before its close event is delivered.  The readyState of a
\* handle that is not stored is never read.
TransportClosing ==
    /\ mainPc # "exited"
    /\ figmaConnection # Null
    /\ handles[figmaConnection] = "LIVE"
    /\ readyState = "OPEN"
    /\ readyState' = "CLOSING"
    /\ lastEvent' = Event("closing", figmaConnection, 0, NoArgs)
    /\ UNCHANGED <<pluginVars, now, mainVars, figmaConnection, isConnected, handles, tableVars,
                   callVars, sendVars>>

\* -------------------------------------------------------------------- main
\* startWebSocketServer(): the handlers are registered and httpServer.listen
\* is called; the function returns without waiting for the outcome of listen.
StartWebSocketServer ==
    /\ mainPc = "start"
    /\ listening' = TRUE
    /\ mainPc' = "started"
    /\ lastEvent' = Event("listen", Null, 0, NoArgs)
    /\ UNCHANGED <<pluginVars, now, useWebSocketOnly, bound, stdio, connVars, tableVars,
                   callVars, sendVars>>

\* main() without the test of useWebSocketOnly: the stdio transport is
\* connected after the listener in both modes.
MainContinue_NoModeTest ==
    /\ mainPc = "started"
    /\ mainPc' = "ws"
    /\ lastEvent' = Event("started", Null, 0, NoArgs)
    /\ UNCHANGED <<pluginVars, now, useWebSocketOnly, listening, bound, stdio, connVars,
                   tableVars, callVars, sendVars>>

\* main() resumed after `await startWebSocketServer()`: with --websocket it
\* is done, without it calls server.connect(new StdioServerTransport()).
MainContinue ==
    /\ mainPc = "started"
    /\ mainPc' = IF useWebSocketOnly THEN "ready" ELSE "ws"
    /\ lastEvent' = Event("started", Null, 0, NoArgs)
    /\ UNCHANGED <<pluginVars, now, useWebSocketOnly, listening, bound, stdio, connVars,
                   tableVars, callVars, sendVars>>

ConnectStdio ==
    /\ mainPc = "ws"
    /\ stdio' = TRUE
    /\ mainPc' = "ready"
    /\ lastEvent' = Event("stdio", Null, 0, NoArgs)
    /\ UNCHANGED <<pluginVars, now, useWebSocketOnly, listening, bound, connVars, tableVars,
                   callVars, sendVars>>

\* main() rejects during start-up: main().catch calls process.exit(1).
StartupFailure ==
    /\ mainPc \in {"start", "ws"}
    /\ mainPc' = "exited"
    /\ lastEvent' = Event("exit", Null, 0, NoArgs)
    /\ UNCHANGED <<pluginVars, now, useWebSocketOnly, listening, bound, stdio, connVars,
                   tableVars, callVars, sendVars>>

\* The outcome of httpServer.listen(WS_PORT, callback), delivered after
\* startWebSocketServer() has returned and before any socket or stdin input:
\* the port is bound and the callback logs.  Whether main() has been resumed
\* by then depends on the module format of the build.
ListenSucceeds ==
    /\ mainPc \in {"started", "ws", "ready"}
    /\ listening
    /\ ~bound
    /\ bound' = TRUE
    /\ lastEvent' = Event("listening", Null, 0, NoArgs)
    /\ UNCHANGED <<pluginVars, now, mainPc, useWebSocketOnly, listening, stdio, connVars,
                   tableVars, callVars, sendVars>>

\* The port cannot be bound: httpServer emits "error", no listener is
\* registered for it on httpServer or wss, and the uncaught exception ends
\* the process with exit code 1 without passing main().catch.
ListenFails ==
    /\ mainPc \in {"started", "ws", "ready"}
    /\ listening
    /\ ~bound
    /\ mainPc' = "exited"
    /\ lastEvent' = Event("listen_error", Null, 0, NoArgs)
    /\ UNCHANGED <<pluginVars, now, useWebSocketOnly, listening, bound, stdio, connVars,
                   tableVars, callVars, sendVars>>

\* The frames a peer delivers.  handleFigmaResponse returns before it reads
\* any field but id when the id has no entry, so of the Results whose id has
\* no entry one per id is delivered; an id not minted yet is as unknown as
\* StrayId.
Representative(id) == Frame("tool_response", id, TRUE, "hi", Undefined)
Inbound ==
    {f \in Frames :
        f.kind = "tool_response" /\ f.id \notin DOMAIN pendingRequests
            => /\ f.id \in MintedIds \cup {StrayId}
               /\ f = Representative(f.id)}

\* ----------------------------------------------------------- specification
Next ==
    \/ StartWebSocketServer
    \/ MainContinue
    \/ ConnectStdio
    \/ StartupFailure
    \/ ListenSucceeds
    \/ ListenFails
    \/ \E name \in ToolNames, m \in ArgMessages, sendThrows \in BOOLEAN :
          CallTool(name, m, sendThrows)
    \/ \E t \in timers : TimeoutFire(t)
    \/ \E ws \in Conns : OnConnection(ws)
    \/ \E ws \in Conns, message \in Inbound : OnMessage(ws, message)
    \/ \E ws \in Conns : OnClose(ws)
    \/ \E ws \in Conns : OnError(ws)
    \/ TransportClosing

Spec == Init /\ [][Next]_vars

\* Node's event loop runs the callback of every armed timer that is not
\* cleared first.
Dues == {n * REQUEST_TIMEOUT : n \in 1..(MaxCalls + 1)}
Timers == {Timer(id, k, due) : id \in Ids, k \in Calls, due \in Dues}
TimeoutOf(id) == \E t \in timers : t.id = id /\ TimeoutFire(t)
FairSpec == Spec /\ \A id \in Ids : WF_vars(TimeoutOf(id))

\* The program with the list handler answering as well.  The handler reads
\* and writes no server state, so the behaviours of Spec are these with the
\* list steps left out.
CatalogNext ==
    \/ Next
    \/ ListTools
CatalogSpec == Init /\ [][CatalogNext]_vars

\* ------------------------------------------- Figma plugin (figma-plugin/code.js)
MaxPluginMsgs == 2

\* Messages the UI passes to figma.ui.onmessage.  args is absent (defined
\* FALSE) or an object whose message property is undefined, "" or a text.
PluginArgs ==
    {[defined |-> FALSE, message |-> Undefined]}
        \cup [defined : {TRUE}, message : ArgMessages]
NoPluginArgs == [defined |-> FALSE, message |-> Undefined]
PluginToolNames == {"ping", "get_selection", "toString"}
PluginMsgTypes ==
    {"check-connection", "connect-to-mcp", "disconnect-from-mcp",
     "tool_request", "tool_response"}
PluginIds == 1..2
PluginMsg(type, id, tool, args) ==
    [type |-> type, id |-> id, tool |-> tool, args |-> args]
PluginMessages ==
    {PluginMsg(type, 0, Undefined, NoPluginArgs) :
        type \in PluginMsgTypes \ {"tool_request"}}
    \cup {PluginMsg("tool_request", id, tool, args) :
            id \in PluginIds, tool \in PluginToolNames, args \in PluginArgs}

\* How a function call ends: it returns a value or throws an error with a
\* message.
Returned(v) == [threw |-> FALSE, value |-> v]
Threw(e) == [threw |-> TRUE, message |-> e]

\* toolHandlers.ping(args): reading args.message throws when args is
\* absent; an undefined or empty message gives the default text.
PingHandler(args) ==
    IF ~args.defined
    THEN Threw("Cannot read properties of undefined (reading 'message')")
    ELSE Returned([message |-> IF args.message \in {Undefined, ""}
                               THEN "Pong from Figma!" ELSE args.message,
                   timestamp |-> "new Date().toISOString()",
                   figmaVersion |-> "figma.version"])

\* toolHandlers[toolName]: the object literal has the one key ping; every
\* other key is looked up on Object.prototype, where toString is a function
\* and get_selection is undefined.
toolHandlers(toolName) ==
    CASE toolName = "ping" -> "ping"
      [] toolName = "toString" -> "Object.prototype.toString"
      [] OTHER -> Undefined

\* executeTool with an own-property test in front of the lookup.
executeTool_OwnOnly(toolName, args) ==
    IF toolName # "ping"
    THEN Threw("Unknown tool: " \o toolName)
    ELSE PingHandler(args)

\* executeTool(toolName, args).  Object.prototype.toString called without a
\* receiver returns the string "[object Undefined]".
executeTool(toolName, args) ==
    LET handler == toolHandlers(toolName)
    IN  IF handler = Undefined
        THEN Threw("Unknown tool: " \o toolName)
        ELSE IF handler = "ping"
             THEN PingHandler(args)
             ELSE Returned([string |-> "[object Undefined]"])

\* What the tool_request branch passes to postMessage for the outcome of
\* executeTool.
ToolResponse(id, outcome) ==
    IF outcome.threw
    THEN [type |-> "tool_response", id |-> id, success |-> FALSE,
          error |-> IF outcome.message = ""
                    THEN "Error" ELSE outcome.message]
    ELSE [type |-> "tool_response", id |-> id, success |-> TRUE,
          data |-> outcome.value]

\* figma.ui.onmessage(msg): four independent tests of msg.type.
PluginOnMessage(msg) ==
    /\ Len(received) < MaxPluginMsgs
    /\ received' = Append(received, msg)
    /\ posted' = Append(posted,
          (IF msg.type = "check-connection"
           THEN <<[type |-> "connection-status", status |-> "ready"]>>
           ELSE << >>)
          \o (IF msg.type = "connect-to-mcp"
              THEN <<[type |-> "start-connection"]>> ELSE << >>)
          \o (IF msg.type = "disconnect-from-mcp"
              THEN <<[type |-> "start-disconnection"]>> ELSE << >>)
          \o (IF msg.type = "tool_request"
              THEN <<ToolResponse(msg.id, executeTool(msg.tool, msg.args))>>
              ELSE << >>))
    /\ UNCHANGED <<now, mainVars, connVars, tableVars, callVars, sendVars,
                   lastEvent, textJob, scanJob>>

\* The plugin's main thread on its own: it handles the messages its UI
\* passes on, one at a time.
PluginNext == \E msg \in PluginMessages : PluginOnMessage(msg)
PluginSpec == Init /\ [][PluginNext]_vars

\* ------------------------ plugin tool create_text_node (index.ts 1187-1245)
\* A font name {family, style}; the fallback of the handler's catch block,
\* which is also the font of a node figma.createText() returns.
FontName(family, style) == [family |-> family, style |-> style]
FallbackFont == FontName("Inter", "Regular")
FontFamilies == {Undefined, "", "Inter", "Roboto"}
FontStyles == {Undefined, "Regular", "Bold"}
FontSizes == {0, 24}
ParentIds == {Undefined, "frame", "missing"}

\* create_text_node entered: the arguments are read (absent or empty ones
\* get their defaults), figma.createText() makes the node, and the handler
\* awaits figma.loadFontAsync(fontName).  loadOk and fallbackOk are whether
\* that load and the load of the fallback will succeed; strict is whether
\* the host refuses to write a font that is not loaded to a node.
CreateTextNode(fontFamily, fontStyle, fontSize, parentId, loadOk, fallbackOk, strict) ==
    /\ textJob.pc = "idle"
    /\ textJob' =
          [pc |-> "load",
           text |-> "hi",
           fontSize |-> IF fontSize = 0 THEN 16 ELSE fontSize,
           fontName |-> FontName(
               IF fontFamily \in {Undefined, ""} THEN "Inter" ELSE fontFamily,
               IF fontStyle \in {Undefined, ""} THEN "Regular" ELSE fontStyle),
           parentId |-> parentId,
           loadOk |-> loadOk,
           fallbackOk |-> fallbackOk,
           strict |-> strict,
           loaded |-> {},
           node |-> [fontName |-> FallbackFont, fontSize |-> 12,
                     characters |-> "", parent |-> Undefined]]
    /\ UNCHANGED <<now, mainVars, connVars, tableVars, callVars, sendVars,
                   lastEvent, received, posted, scanJob>>

\* The await of figma.loadFontAsync(fontName) ends: resolved, or rejected
\* into the catch block, which awaits the load of the fallback.
LoadFont ==
    /\ textJob.pc = "load"
    /\ textJob' =
          IF textJob.loadOk
          THEN [textJob EXCEPT !.pc = "set",
                               !.loaded = @ \cup {textJob.fontName}]
          ELSE [textJob EXCEPT !.pc = "fallback"]
    /\ UNCHANGED <<now, mainVars, connVars, tableVars, callVars, sendVars,
                   lastEvent, received, posted, scanJob>>

\* The await of figma.loadFontAsync(fallbackFont) ends: resolved, then
\* textNode.fontName = fallbackFont; or rejected out of the handler.
LoadFallbackFont ==
    /\ textJob.pc = "fallback"
    /\ textJob' =
          IF textJob.fallbackOk
          THEN [textJob EXCEPT !.pc = "set",
                               !.loaded = @ \cup {FallbackFont},
                               !.node.fontName = FallbackFont]
          ELSE [textJob EXCEPT !.pc = "threw"]
    /\ UNCHANGED <<now, mainVars, connVars, tableVars, callVars, sendVars,
                   lastEvent, received, posted, scanJob>>

\* The rest of the handler, which runs without an await:
\* textNode.fontName = fontName, fontSize, characters = text, then the node
\* is appended to its parent.  A strict host throws at the first write of a
\* font that is not loaded; the missing parent throws after the writes.
SetTextProperties ==
    /\ textJob.pc = "set"
    /\ textJob' =
          IF textJob.strict /\ textJob.fontName \notin textJob.loaded
          THEN [textJob EXCEPT !.pc = "threw"]
          ELSE [textJob EXCEPT
                   !.pc = IF textJob.parentId = "missing"
                          THEN "threw" ELSE "done",
                   !.node = [fontName |-> textJob.fontName,
                             fontSize |-> textJob.fontSize,
                             characters |-> textJob.text,
                             parent |-> IF textJob.parentId = Undefined
                                        THEN "currentPage"
                                        ELSE IF textJob.parentId = "missing"
                                             THEN Undefined
                                             ELSE textJob.parentId]]
    /\ UNCHANGED <<now, mainVars, connVars, tableVars, callVars, sendVars,
                   lastEvent, received, posted, scanJob>>

\* The plugin running create_text_node calls.
TextNext ==
    \/ \E fontFamily \in FontFamilies, fontStyle \in FontStyles,
          fontSize \in FontSizes, parentId \in ParentIds,
          loadOk \in BOOLEAN, fallbackOk \in BOOLEAN, strict \in BOOLEAN :
          CreateTextNode(fontFamily, fontStyle, fontSize, parentId, loadOk,
                         fallbackOk, strict)
    \/ LoadFont
    \/ LoadFallbackFont
    \/ SetTextProperties
TextSpec == Init /\ [][TextNext]_vars

\* --------------------------------- plugin tool scan_frame (index.ts 891-959)
MaxNodes == 6
MaxDepth == 5

\* The node tree below the scanned frame.  Node 0 is the frame, the nodes
\* below it are numbered in document order, parent[n] is the node whose
\* children list holds n.  A node with children is a FRAME or a GROUP; a
\* node without is a TEXT, which has no children property, or an empty
\* FRAME.
Frame0 == 0
NodeType(parent, container, n) ==
    IF \E c \in DOMAIN parent : parent[c] = n
    THEN (IF container[n] THEN "FRAME" ELSE "GROUP")
    ELSE (IF container[n] THEN "FRAME" ELSE "TEXT")
ScanDepths == {-1, 0, 2, 5, 7}
ScanFilters == {Undefined, "FRAME", "TEXT"}

\* 'children' in node, node.children (in order) and node.children.length.
HasChildren(tree, node) == node = Frame0 \/ tree.type[node] # "TEXT"
ChildrenOf(tree, node) ==
    SelectSeq([i \in DOMAIN tree.parent |-> i],
              LAMBDA n : tree.parent[n] = node)

\* Math.min(args.depth || 1, 5) without the limit of 5.
EffectiveDepth_NoCap(depth) == IF depth = 0 THEN 1 ELSE depth

\* const depth = Math.min(args.depth || 1, 5): an absent depth and 0 give 1.
EffectiveDepth(depth) ==
    LET requested == IF depth = 0 THEN 1 ELSE depth
    IN  IF requested < MaxDepth THEN requested ELSE MaxDepth

\* What scanChildren pushes for a child that passes the filter.
ChildData(tree, child, level) ==
    [id |-> child, type |-> tree.type[child], level |-> level,
     childCount |-> IF HasChildren(tree, child)
                    THEN Len(ChildrenOf(tree, child)) ELSE 0]

\* scanChildren(node, currentDepth, currentLevel), and the body of its loop
\* over node.children run on the children still to visit.
RECURSIVE scanChildren(_, _, _, _)
RECURSIVE ScanLoop(_, _, _, _)
scanChildren(tree, node, currentDepth, currentLevel) ==
    IF currentDepth > tree.depth
    THEN << >>
    ELSE IF HasChildren(tree, node)
         THEN ScanLoop(tree, ChildrenOf(tree, node), currentDepth,
                       currentLevel)
         ELSE << >>
ScanLoop(tree, children, currentDepth, currentLevel) ==
    IF children = << >>
    THEN << >>
    ELSE LET child == Head(children)
             pushed ==
                 IF tree.filter # Undefined /\ tree.type[child] # tree.filter
                 THEN IF currentDepth < tree.depth
                      THEN scanChildren(tree, child, currentDepth + 1,
                                        currentLevel)
                      ELSE << >>
                 ELSE <<ChildData(tree, child, currentLevel)>>
                      \o (IF currentDepth < tree.depth
                             /\ HasChildren(tree, child)
                          THEN scanChildren(tree, child, currentDepth + 1,
                                            currentLevel + 1)
                          ELSE << >>)
         IN  pushed \o ScanLoop(tree, Tail(children), currentDepth,
                                currentLevel)

\* The document the plugin runs in grows by one node: the new node becomes
\* the last child of the node before it (up = 0) or of the one before that
\* (up = 1); container is whether it is a FRAME.
AddNode(up, container) ==
    /\ scanJob.pc \in {"idle", "open"}
    /\ LET parent == IF scanJob.pc = "idle" THEN << >> ELSE scanJob.parent
           frames == IF scanJob.pc = "idle" THEN << >>
                     ELSE scanJob.container
           n == Len(parent) + 1
       IN  /\ n <= MaxNodes
           /\ n - 1 - up >= 0
           /\ scanJob' = [pc |-> "open",
                          parent |-> Append(parent, n - 1 - up),
                          container |-> Append(frames, container)]
    /\ UNCHANGED <<now, mainVars, connVars, tableVars, callVars, sendVars,
                   lastEvent, received, posted, textJob>>

\* toolHandlers.scan_frame called on a frame that exists and has children:
\* it runs to its return without an await.
ScanFrame(depth, filter) ==
    /\ scanJob.pc = "open"
    /\ LET type == [n \in DOMAIN scanJob.parent |->
                       NodeType(scanJob.parent, scanJob.container, n)]
           tree == [parent |-> scanJob.parent, type |-> type,
                    depth |-> EffectiveDepth(depth), filter |-> filter]
       IN  scanJob' = [pc |-> "done", parent |-> scanJob.parent,
                       type |-> type, depth |-> depth, filter |-> filter,
                       children |-> scanChildren(tree, Frame0, 1, 0)]
    /\ UNCHANGED <<now, mainVars, connVars, tableVars, callVars, sendVars,
                   lastEvent, received, posted, textJob>>

\* The plugin running one scan_frame call on some document.
ScanNext ==
    \/ \E up \in {0, 1}, container \in BOOLEAN : AddNode(up, container)
    \/ \E depth \in ScanDepths, filter \in ScanFilters :
          ScanFrame(depth, filter)
ScanSpec == Init /\ [][ScanNext]_vars

TypeOK ==
    /\ mainPc \in {"start", "started", "ws", "ready", "exited"}
    /\ figmaConnection \in Conns \cup {Null}
    /\ isConnected \in BOOLEAN
    /\ DOMAIN pendingRequests \subseteq Ids
    /\ timers \subseteq Timers
    /\ now \in {0} \cup Dues
    /\ Len(calls) <= MaxCalls
    /\ Len(promise) = Len(calls)
    /\ Len(settleCount) = Len(calls)

\* ------------------------------------------------------------------ claims
Settled(p) == p.state \in {"fulfilled", "rejected"}
LastCall == Len(calls)
\* The step is the tool handler entered for a new call.
CallStep == Len(calls') = Len(calls) + 1
\* The step delivers the message m on some handle.  The conjuncts before
\* OnMessage follow from it and are stated first so that steps of other
\* handlers, and of other messages, are set aside without evaluating it.
Delivered(m) ==
    /\ UNCHANGED <<mainVars, connVars, calls, sendVars>>
    /\ (m.kind = "tool_response") =
          (lastEvent'.type \in {"tool_response", "late_response",
                                "stray_response"})
    /\ lastEvent'.type = "tool_response" => m.id = lastEvent'.id
    /\ \E ws \in Conns :
          /\ lastEvent' = MessageEvent(ws, m)
          /\ OnMessage(ws, m)
ResultsFor(id) == {m \in ResultFrames : m.id = id}

\* C1: the promise of every call is settled at most once; a settled call has
\* no entry in pendingRequests and no armed timer; and once a call is settled
\* no step changes its outcome, and a Result naming its id changes neither
\* the table, the timers nor any call.
C1_SettledOnce ==
    \A k \in DOMAIN calls :
        /\ settleCount[k] <= 1
        /\ Settled(promise[k]) =>
              /\ calls[k].requestId \notin DOMAIN pendingRequests
              /\ \A t \in timers : t.call # k /\ t.id # calls[k].requestId
C1_LaterEventsIgnored ==
    \A k \in DOMAIN calls :
        Settled(promise[k]) =>
            /\ promise'[k] = promise[k]
            /\ settleCount'[k] = settleCount[k]
            /\ calls[k].requestId # StrayId =>
                  \/ UNCHANGED <<tableVars, callVars>>
                  \/ \A m \in ResultsFor(calls[k].requestId) : ~Delivered(m)
C1_AtMostOnceResolution ==
    [](C1_SettledOnce) /\ [][C1_LaterEventsIgnored]_vars

\* C1 witness: a call was fulfilled by a Result and a second Result with the
\* same id was delivered afterwards.
C1_Witness ==
    /\ Len(calls) = 1
    /\ promise[1].state = "fulfilled"
    /\ settleCount[1] = 1
    /\ lastEvent.type = "late_response"

\* C2: under FairSpec (an armed timer eventually fires) every call that is
\* registered in pendingRequests is eventually settled and its entry removed.
C2_EventuallyResolved ==
    \A k \in Calls :
        (k \in DOMAIN calls /\ promise[k].state = "pending")
            ~> (/\ k \in DOMAIN calls
                /\ Settled(promise[k])
                /\ calls[k].requestId \notin DOMAIN pendingRequests)

\* C2 witness: a call sent on a connection that was then replaced was
\* settled by its deadline timer, and its entry is gone.
C2_Witness ==
    /\ Len(calls) = 1
    /\ promise[1] = Rejected(TimeoutError)
    /\ figmaConnection = 2
    /\ handles[1] = "LIVE"
    /\ pendingRequests = << >>

\* C3: a call is fulfilled only by the delivery of a Result whose id is the
\* call's own request id, and with that Result's data; the delivery of a
\* Result changes the outcome of no call but the one whose request id it
\* carries.
C3_OwnResult ==
    \A k \in DOMAIN calls :
        /\ (promise[k].state = "pending" /\ promise'[k].state = "fulfilled")
              => \E m \in ResultsFor(calls[k].requestId) :
                    /\ m.success
                    /\ m.data = promise'[k].value
                    /\ Delivered(m)
        /\ promise'[k] # promise[k] =>
              \A m \in ResultFrames :
                  m.id # calls[k].requestId => ~Delivered(m)
C3_OutOfOrderCorrelation == [][C3_OwnResult]_vars

\* C3 witness: two calls were pending at once, the Result of the second was
\* delivered first, and each call holds the data of its own Result.
C3_Witness ==
    /\ Len(calls) = 2
    /\ promise[2] = Fulfilled(Undefined)
    /\ promise[1] = Fulfilled("hi")
    /\ calls[1].requestId = 1
    /\ calls[2].requestId = 2
    /\ lastEvent.type = "tool_response"
    /\ lastEvent.id = 1

\* C4: the delivery of a Result whose id belongs to a call that is already
\* settled (by its deadline timer, or by an earlier Result) changes neither
\* the outcome of any call, nor pendingRequests, nor the timers, and runs no
\* resolve or reject.
C4_LateResult ==
    \A k \in DOMAIN calls :
        (calls[k].requestId # StrayId /\ Settled(promise[k])) =>
            \/ UNCHANGED <<pendingRequests, timers, promise, settleCount>>
            \/ \A m \in ResultsFor(calls[k].requestId) : ~Delivered(m)
C4_LateResultIsNoOp == [][C4_LateResult]_vars

\* C4 witness: the deadline timer of a call fired and a Result with the
\* call's id was delivered afterwards; the outcome is still the timeout.
C4_Witness ==
    /\ Len(calls) = 1
    /\ calls[1].requestId = 1
    /\ promise[1] = Rejected(TimeoutError)
    /\ settleCount[1] = 1
    /\ pendingRequests = << >>
    /\ lastEvent.type = "late_response"

\* The step delivers the close event of handle ws.
CloseStep(ws) == handles[ws] = "LIVE" /\ handles'[ws] = "CLOSED"

\* C5: when the close event of the stored (active) handle is delivered, every
\* call with an entry in pendingRequests is rejected with the disconnect
\* error in that step, its timer is no longer armed, and pendingRequests is
\* empty afterwards; a Result delivered later for the id of a call rejected
\* that way changes nothing.
C5_CloseFailsAll ==
    \A ws \in Conns :
        (CloseStep(ws) /\ ws = figmaConnection) =>
            /\ \A id \in DOMAIN pendingRequests :
                  /\ promise'[pendingRequests[id].call]
                        = Rejected(DisconnectedError)
                  /\ settleCount'[pendingRequests[id].call] = 1
                  /\ pendingRequests[id].timeout \notin timers'
            /\ pendingRequests' = << >>
C5_LateAfterClose ==
    \A k \in DOMAIN calls :
        promise[k] = Rejected(DisconnectedError) =>
            \/ UNCHANGED <<tableVars, callVars>>
            \/ \A m \in ResultsFor(calls[k].requestId) : ~Delivered(m)
C5_ConnectionLost == [][C5_CloseFailsAll /\ C5_LateAfterClose]_vars

\* C5 witness: two calls were pending when the only connection closed; both
\* hold the disconnect error, the table and the timers are empty, and a
\* Result for one of the two ids arrived on the next connection.
C5_Witness ==
    /\ Len(calls) = 2
    /\ promise[1] = Rejected(DisconnectedError)
    /\ promise[2] = Rejected(DisconnectedError)
    /\ handles[1] = "CLOSED"
    /\ figmaConnection = 2
    /\ pendingRequests = << >>
    /\ timers = {}
    /\ lastEvent.type = "late_response"

\* C6 (as claimed): the close event of a handle that is not the stored one
\* leaves the stored handle in place and fails no pending call.
C6_SupersededClose ==
    \A ws \in Conns :
        (CloseStep(ws) /\ figmaConnection # Null /\ ws # figmaConnection) =>
            /\ figmaConnection' = figmaConnection
            /\ isConnected' = isConnected
            /\ UNCHANGED <<pendingRequests, timers, promise, settleCount>>
C6_SupersededCloseIsNoOp == [][C6_SupersededClose]_vars

\* C7 (as claimed): the close event of a handle rejects a pending call with
\* the disconnect error only if that handle is the one the call's request
\* was sent on.
C7_OwnClose ==
    \A ws \in Conns :
        \A id \in DOMAIN pendingRequests :
            (/\ CloseStep(ws)
             /\ promise'[pendingRequests[id].call]
                    = Rejected(DisconnectedError))
                => ws = pendingRequests[id].conn
C7_OnlyOwningConnection == [][C7_OwnClose]_vars

\* C8: a tool call whose name is not in the catalog adds no entry, arms no
\* timer, sends nothing, never enters sendToFigma and leaves the connection
\* alone; its result is the unknown-tool error, connected or not.
C8_UnknownTool ==
    LET k == Len(calls) + 1 IN
    (CallStep /\ calls'[k].name # "ping") =>
        /\ UNCHANGED <<pendingRequests, timers, sent, connVars>>
        /\ promise'[k] = NotCalled
        /\ settleCount'[k] = 0
        /\ calls'[k].requestId = StrayId
        /\ CallToolResult(LastCall)'
              = ErrorResult(calls'[k].name, "Unknown tool: " \o calls'[k].name)
C8_UnknownOperation == [][C8_UnknownTool]_vars

\* C8 witness: an unknown tool was called while the connection was open;
\* nothing is pending and nothing was sent.
C8_Witness ==
    /\ lastEvent.type = "call"
    /\ calls[LastCall].name = "get_selection"
    /\ figmaConnection # Null
    /\ readyState = "OPEN"
    /\ pendingRequests = << >>
    /\ sent = << >>

\* C9: a ping entered while no handle is stored, or while the stored
\* handle's readyState is not OPEN, is rejected with the not-connected error
\* in the same step; no entry is added, no timer armed, nothing sent.
C9_NotConnected ==
    LET k == Len(calls) + 1 IN
    (/\ CallStep
     /\ calls'[k].name = "ping"
     /\ (figmaConnection = Null \/ readyState # "OPEN")) =>
        /\ promise'[k] = Rejected(NotConnectedError)
        /\ calls'[k].requestId = StrayId
        /\ UNCHANGED <<pendingRequests, timers, sent>>
C9_NotConnectedFailsFast == [][C9_NotConnected]_vars

\* C9 witness: a ping was entered while the stored handle was closing.
C9_Witness ==
    /\ lastEvent.type = "call"
    /\ figmaConnection # Null
    /\ readyState = "CLOSING"
    /\ promise[LastCall] = Rejected(NotConnectedError)
    /\ pendingRequests = << >>
    /\ timers = {}

\* C10: when ws.send throws, the step leaves pendingRequests and the timers
\* as they were before the call, and rejects the call once with the
\* send-failure error; no timer of such a call is ever armed afterwards.
C10_RollBack ==
    LET k == Len(calls) + 1 IN
    (/\ CallStep
     /\ Len(sent') = Len(sent) + 1
     /\ ~sent'[Len(sent')].ok) =>
        /\ pendingRequests' = pendingRequests
        /\ timers' = timers
        /\ promise'[k] = Rejected(SendFailureError)
        /\ settleCount'[k] = 1
C10_NoTimerLeft ==
    \A k \in DOMAIN calls :
        promise[k] = Rejected(SendFailureError) =>
            /\ settleCount[k] = 1
            /\ calls[k].requestId \notin DOMAIN pendingRequests
            /\ \A t \in timers : t.call # k
C10_SendFailureRollback == [](C10_NoTimerLeft) /\ [][C10_RollBack]_vars

\* C10 witness: the send of a ping threw on an open connection.
C10_Witness ==
    /\ lastEvent.type = "call"
    /\ figmaConnection # Null
    /\ readyState = "OPEN"
    /\ promise[LastCall] = Rejected(SendFailureError)
    /\ settleCount[LastCall] = 1
    /\ ~sent[Len(sent)].ok
    /\ pendingRequests = << >>
    /\ timers = {}

\* C11 (as claimed): a call whose request was sent, whose Result is not
\* delivered and whose connection (the one the request was sent on) is not
\* closed is settled by its timeout and by nothing else: a step that settles
\* a pending call is the delivery of its Result, the close event of its own
\* connection, or the timer rejecting it with the timeout error, the clock
\* at REQUEST_TIMEOUT ms or more after the entry's timestamp and the entry
\* removed in that step.
C11_TimeoutStep ==
    \A id \in DOMAIN pendingRequests :
        LET pending == pendingRequests[id]
        IN  promise'[pending.call] # promise[pending.call] =>
               \/ CloseStep(pending.conn)
               \/ (lastEvent'.type = "tool_response" /\ lastEvent'.id = id)
               \/ /\ promise'[pending.call] = Rejected(TimeoutError)
                  /\ now' >= pending.timestamp + REQUEST_TIMEOUT
                  /\ id \notin DOMAIN pendingRequests'
                  /\ settleCount'[pending.call] = 1
C11_TimeoutAtDeadline == [][C11_TimeoutStep]_vars

\* C12: the delivery of a Result with success = true whose id has an entry
\* in pendingRequests fulfils that entry's call with exactly the Result's
\* data, once, removes the entry and clears its timer.
C12_Success ==
    \A m \in ResultFrames :
        (m.success /\ m.id \in DOMAIN pendingRequests) =>
            LET pending == pendingRequests[m.id]
            IN  \/ /\ promise'[pending.call] = Fulfilled(m.data)
                   /\ settleCount'[pending.call] = 1
                   /\ m.id \notin DOMAIN pendingRequests'
                   /\ pending.timeout \notin timers'
                \/ ~Delivered(m)
C12_SuccessPayload == [][C12_Success]_vars

\* C12 witness: a ping was answered on the stored connection before any
\* time passed, by a Result with data "hi"; the call holds "hi", the
\* handler returns the pong text, and no entry or timer is left.
C12_Witness ==
    /\ Len(calls) = 1
    /\ calls[1].name = "ping"
    /\ promise[1] = Fulfilled("hi")
    /\ CallToolResult(1) = PongResult("hi")
    /\ lastEvent.type = "tool_response"
    /\ lastEvent.conn = figmaConnection
    /\ now = 0
    /\ pendingRequests = << >>
    /\ timers = {}

\* A well-formed tool result for operation name: a text payload, or a text
\* marked isError that names the operation and gives a reason.
WellFormed(r, name) ==
    /\ DOMAIN r = {"isError", "text"}
    /\ r.isError \in BOOLEAN
    /\ IF r.isError
       THEN /\ Len(r.text) = 4
            /\ r.text[2] = name
            /\ r.text[4] \notin {Undefined, ""}
       ELSE /\ Len(r.text) = 2
            /\ r.text[2] # Undefined

\* C13: for every call whose sendToFigma promise is settled, and for every
\* call of an unknown tool, the handler returns a well-formed result: it
\* never throws, and a failure is marked isError and names the tool and the
\* reason (the error of the promise, the unknown-tool text, or the error
\* raised while formatting the payload).
C13_WellFormedResult ==
    \A k \in DOMAIN calls :
        promise[k].state # "pending" =>
            LET r == CallToolResult(k)
            IN  /\ WellFormed(r, calls[k].name)
                /\ promise[k].state = "rejected" =>
                      r = ErrorResult(calls[k].name, promise[k].value)
                /\ promise[k].state = "none" => r.isError
                /\ promise[k].state = "fulfilled" /\ ~r.isError =>
                      r = PongResult(promise[k].value)

\* C13 witness: an unknown tool was called, and a ping was answered by a
\* success Result without data, which makes the handler's formatting throw
\* inside its try block; both calls returned an isError text.
C13_Witness ==
    /\ Len(calls) = 2
    /\ calls[1].name = "get_selection"
    /\ CallToolResult(1).isError
    /\ calls[2].name = "ping"
    /\ promise[2] = Fulfilled(Undefined)
    /\ CallToolResult(2).isError

\* C14: a ping entered while a handle is stored and open hands exactly one
\* tool_request with a fresh id to ws.send, whatever its message argument
\* (missing, empty or given), and adds exactly the entry of that id, which
\* stays if the send returned and is gone again if it threw; no other step
\* sends a tool_request, so every minted id is sent exactly once.
C14_SendStep ==
    LET k == Len(calls) + 1 IN
    /\ (/\ CallStep
        /\ calls'[k].name = "ping"
        /\ figmaConnection # Null
        /\ readyState = "OPEN") =>
          LET id == calls'[k].requestId
          IN  /\ id \notin MintedIds \cup {StrayId}
              /\ sent' = Append(sent, sent'[Len(sent')])
              /\ sent'[Len(sent')].id = id
              /\ sent'[Len(sent')].tool = "ping"
              /\ DOMAIN pendingRequests' =
                    IF sent'[Len(sent')].ok
                    THEN DOMAIN pendingRequests \cup {id}
                    ELSE DOMAIN pendingRequests
    /\ ~CallStep => sent' = sent
C14_SentOnce ==
    /\ Len(sent) = Cardinality(MintedIds)
    /\ \A id \in MintedIds :
          Cardinality({i \in DOMAIN sent : sent[i].id = id}) = 1
C14_OneEntryOneSend == [](C14_SentOnce) /\ [][C14_SendStep]_vars

\* C14 witness: a ping without a message argument was entered on an open
\* connection; one request was sent and one entry is pending.
C14_Witness ==
    /\ lastEvent.type = "call"
    /\ lastEvent.arg[1] = Undefined
    /\ calls[LastCall].name = "ping"
    /\ Len(sent) = 1
    /\ sent[1].ok
    /\ DOMAIN pendingRequests = {sent[1].id}

\* The step accepts handle ws.
ConnectStep(ws) == handles[ws] = "NONE" /\ handles'[ws] = "LIVE"

\* C15: when a handle is accepted while another one is stored, the new one
\* becomes the stored handle; every other handle stays as it was (the old
\* one is not closed and nothing is sent to it), pendingRequests and the
\* timers keep their entries, and no call is settled.
C15_Replace ==
    \A ws \in Conns :
        (ConnectStep(ws) /\ figmaConnection # Null) =>
            /\ figmaConnection' = ws
            /\ isConnected'
            /\ readyState' = "OPEN"
            /\ \A c \in Conns \ {ws} : handles'[c] = handles[c]
            /\ welcomed' = welcomed \cup {ws}
            /\ UNCHANGED <<pendingRequests, timers, calls, promise,
                           settleCount, sent, now>>
C15_ReplaceLeavesRest == [][C15_Replace]_vars

\* C15 witness: handle 2 was accepted while handle 1 was stored with a call
\* pending on it; handle 1 is still live and the call is still pending.
C15_Witness ==
    /\ lastEvent.type = "connection"
    /\ figmaConnection = 2
    /\ handles[1] = "LIVE"
    /\ Len(calls) = 1
    /\ promise[1].state = "pending"
    /\ 1 \in DOMAIN pendingRequests
    /\ pendingRequests[1].conn = 1
    /\ timers # {}

\* The request of entry id went out on a handle after which a later handle
\* was accepted.
Superseded(id) ==
    \E c \in Conns : c > pendingRequests[id].conn /\ handles[c] # "NONE"

\* C16 (as claimed): a pending call whose connection was superseded is
\* settled by no step other than its own timer: whenever its promise
\* changes, the new outcome is the timeout error.
C16_TimeoutOnly ==
    \A id \in DOMAIN pendingRequests :
        (/\ Superseded(id)
         /\ promise'[pendingRequests[id].call]
                # promise[pendingRequests[id].call])
            => promise'[pendingRequests[id].call] = Rejected(TimeoutError)
C16_SupersededOnlyTimeout == [][C16_TimeoutOnly]_vars

\* C17: the delivery of a frame that is not JSON, has no type field or has a
\* type the router does not know changes nothing but the log: the stored
\* handle, every handle's liveness (so its later messages are still
\* handled), pendingRequests, the timers and every call stay as they were.
C17_Dropped ==
    \/ UNCHANGED <<mainVars, connVars, tableVars, callVars, sendVars, now>>
    \/ \A m \in DroppedFrames : ~Delivered(m)
C17_MalformedDropped == [][C17_Dropped]_vars

\* C17 witness: such a frame was delivered on the stored connection while a
\* call was pending; the connection is still stored and open and the call
\* is still pending.
C17_Witness ==
    /\ lastEvent.type = "dropped"
    /\ figmaConnection = 1
    /\ readyState = "OPEN"
    /\ handles[1] = "LIVE"
    /\ Len(calls) = 1
    /\ promise[1].state = "pending"
    /\ DOMAIN pendingRequests = {1}

\* C18: the delivery of an event frame changes neither pendingRequests, the
\* timers nor any call, even when it carries the id of a pending entry; the
\* delivery of a Result whose id has no entry in pendingRequests changes
\* nothing either.
C18_EventOrUnmatched ==
    \/ UNCHANGED <<connVars, tableVars, callVars, sendVars, now>>
    \/ /\ \A m \in EventFrames : ~Delivered(m)
       /\ \A m \in ResultFrames :
             m.id \notin DOMAIN pendingRequests => ~Delivered(m)
C18_OnlyMatchedResults == [][C18_EventOrUnmatched]_vars

\* C18 witness: an event frame carrying id 1 was delivered while the entry
\* of id 1 was pending; the entry and its call are untouched.
C18_Witness ==
    /\ lastEvent.type = "event"
    /\ 1 \in DOMAIN pendingRequests
    /\ promise[pendingRequests[1].call].state = "pending"
    /\ pendingRequests[1].timeout \in timers
    /\ \E m \in EventFrames : m.id = 1

\* C19: the delivery of a Result with success = false whose id has an entry
\* in pendingRequests rejects that entry's call, once, with the Result's
\* error text, or with "Unknown error from Figma" when the error field is
\* missing or empty, removes the entry and clears its timer.
C19_Failure ==
    \A m \in ResultFrames :
        (~m.success /\ m.id \in DOMAIN pendingRequests) =>
            LET pending == pendingRequests[m.id]
            IN  \/ /\ promise'[pending.call] =
                         Rejected(IF m.error \in {Undefined, ""}
                                  THEN UnknownFigmaError ELSE m.error)
                   /\ settleCount'[pending.call] = 1
                   /\ m.id \notin DOMAIN pendingRequests'
                   /\ pending.timeout \notin timers'
                \/ ~Delivered(m)
C19_RemoteError == [][C19_Failure]_vars

\* C19 witness: two calls were answered by failure Results, one with an
\* error text and one without; each holds its own error, and no entry or
\* timer is left.
C19_Witness ==
    /\ Len(calls) = 2
    /\ promise[1] = Rejected("boom")
    /\ promise[2] = Rejected(UnknownFigmaError)
    /\ settleCount = <<1, 1>>
    /\ pendingRequests = << >>
    /\ timers = {}
    /\ lastEvent.type = "tool_response"

\* The failure kind a caller can read off a rejection: the Error carries
\* nothing but its message text.
FailureKind(e) ==
    CASE e = NotConnectedError -> "NotConnected"
      [] e = SendFailureError -> "SendFailure"
      [] e = TimeoutError -> "Timeout"
      [] e = DisconnectedError -> "ConnectionLost"
      [] OTHER -> "RemoteError"
\* The failure kind of the handler that runs in the step.
StepKind ==
    CASE lastEvent'.type = "timeout" -> "Timeout"
      [] lastEvent'.type = "close" -> "ConnectionLost"
      [] lastEvent'.type = "tool_response" -> "RemoteError"
      [] lastEvent'.type = "call" ->
            IF Len(sent') = Len(sent) THEN "NotConnected" ELSE "SendFailure"
      [] OTHER -> "none"

\* C20 (as claimed): whenever a step rejects a call, the kind the caller
\* reads off the rejection is the kind of the handler that rejected it; in
\* particular a rejection made by a failure Result never reads as a
\* connection loss or a timeout.
C20_KindOfRejection ==
    \A k \in DOMAIN calls' :
        (/\ promise'[k].state = "rejected"
         /\ (k \in DOMAIN calls => promise[k].state = "pending"))
            => FailureKind(promise'[k].value) = StepKind
C20_DistinguishableFailures == [][C20_KindOfRejection]_vars

\* C21 (as claimed): the error event of the stored handle makes the
\* connection absent and rejects every pending call with the disconnect
\* error in that step.
C21_ErrorStep ==
    (figmaConnection # Null /\ OnError(figmaConnection)) =>
        /\ figmaConnection' = Null
        /\ isConnected' = FALSE
        /\ pendingRequests' = << >>
        /\ \A id \in DOMAIN pendingRequests :
              promise'[pendingRequests[id].call] = Rejected(DisconnectedError)
C21_ErrorLikeClose == [][C21_ErrorStep]_vars

\* C22 (as claimed): the WebSocket listener and the stdio transport never
\* run in the same process, and a process started without --websocket has no
\* WebSocket listener, neither started nor bound.
C22_StdioOrWebSocket ==
    /\ ~(stdio /\ bound)
    /\ ~useWebSocketOnly => (~listening /\ ~bound)

\* C23: the mode flag only decides whether the stdio transport is connected.
\* Once start-up has finished the listener runs in both modes and the stdio
\* transport is connected exactly when --websocket is absent; the transport
\* is connected only in a step that starts with the listener already
\* running, and the flag never changes.  The listener is started by the call
\* of listen; it is bound only after it was started, in either mode.
C23_Step ==
    /\ useWebSocketOnly' = useWebSocketOnly
    /\ stdio' => (listening' /\ ~useWebSocketOnly')
    /\ mainPc' = "ready" => (listening' /\ (stdio' = ~useWebSocketOnly'))
    /\ (stdio' /\ ~stdio) => listening
    /\ listening => listening'
    /\ bound' => listening'
    /\ bound => bound'
C23_ModeSwitch == [][C23_Step]_vars
C23_Witness ==
    /\ mainPc = "ready"
    /\ ~useWebSocketOnly
    /\ listening
    /\ stdio
    /\ lastEvent.type = "stdio"

\* C24: the process exits only out of start-up.  A step into the exited
\* state is either main() rejecting before it has finished or the listener
\* failing to bind its port, before any connection was accepted and any call
\* entered, and it changes nothing else; once main() has finished and the
\* port is bound no call, Result, malformed message, timeout, send failure,
\* error or close leaves the ready state.
C24_Step ==
    /\ (mainPc = "ready" /\ bound) => mainPc' = "ready"
    /\ (mainPc' = "exited" /\ mainPc # "exited") =>
          /\ \/ /\ mainPc \in {"start", "ws"}
                /\ lastEvent'.type = "exit"
             \/ /\ listening
                /\ ~bound
                /\ \A ws \in Conns : handles[ws] = "NONE"
                /\ lastEvent'.type = "listen_error"
          /\ calls = << >>
          /\ UNCHANGED <<connVars, tableVars, callVars, sendVars>>
C24_NoExitAfterStartup == [][C24_Step]_vars
C24_Witness ==
    /\ mainPc = "ready"
    /\ bound
    /\ Len(calls) = 2
    /\ promise[1] = Rejected(TimeoutError)
    /\ promise[2] = Rejected(SendFailureError)
    /\ \E ws \in Conns : handles[ws] = "CLOSED"
    /\ lastEvent.type = "dropped"

\* C25: envelopes go out in the order their invokes were entered.  The calls
\* that passed the catalog and connection checks are those that were given a
\* request id; the sequence of envelopes written to the data plane carries
\* exactly their ids, in the order of the calls.
PassedChecks(c) == c.requestId # StrayId
C25_SendOrder ==
    LET passed == SelectSeq(calls, PassedChecks)
    IN  /\ Len(sent) = Len(passed)
        /\ \A i \in DOMAIN sent :
              /\ sent[i].id = passed[i].requestId
              /\ sent[i].tool = passed[i].name
C25_Witness ==
    /\ Len(calls) = 2
    /\ Len(sent) = 2
    /\ sent[1].ok /\ sent[2].ok
    /\ sent[1].id = calls[1].requestId
    /\ sent[2].id = calls[2].requestId
    /\ sent[1].id # sent[2].id

\* C26: the step in which the deadline of a pending call fires writes nothing
\* to the data plane and keeps the connection handle; it removes exactly that
\* call's entry and timer, rejects that call, and leaves every other entry,
\* timer and call as it was.
C26_Step ==
    \A t \in timers :
        (/\ lastEvent'.type = "timeout"
         /\ t \notin timers'
         /\ promise[t.call].state = "pending"
         /\ promise'[t.call] = Rejected(TimeoutError)) =>
            /\ UNCHANGED <<sent, welcomed, connVars, calls>>
            /\ pendingRequests' = MapDelete(pendingRequests, t.id)
            /\ timers' = timers \ {t}
            /\ \A k \in DOMAIN promise \ {t.call} : promise'[k] = promise[k]
C26_TimeoutSendsNothing == [][C26_Step]_vars
C26_Witness ==
    /\ lastEvent.type = "timeout"
    /\ Len(calls) = 2
    /\ promise[1] = Rejected(TimeoutError)
    /\ promise[2] = Pending
    /\ DOMAIN pendingRequests = {calls[2].requestId}
    /\ Len(sent) = 2
    /\ figmaConnection # Null

\* C27: request ids are unique.  Any two calls that registered an entry have
\* different ids; the entry stored under an id belongs to the one call that
\* minted it, and the id of a settled call has no entry, so a late Result
\* for it matches nothing and cannot resolve a newer call.
C27_UniqueIds ==
    /\ \A j, k \in DOMAIN calls :
          (j # k /\ PassedChecks(calls[j]) /\ PassedChecks(calls[k]))
              => calls[j].requestId # calls[k].requestId
    /\ \A id \in DOMAIN pendingRequests :
          /\ pendingRequests[id].call \in DOMAIN calls
          /\ calls[pendingRequests[id].call].requestId = id
    /\ \A k \in DOMAIN calls :
          (PassedChecks(calls[k]) /\ promise[k].state # "pending")
              => calls[k].requestId \notin DOMAIN pendingRequests
C27_Witness ==
    /\ Len(calls) = 2
    /\ PassedChecks(calls[1]) /\ PassedChecks(calls[2])
    /\ promise[1].state = "fulfilled"
    /\ promise[2] = Pending
    /\ lastEvent.type = "late_response"

\* C28: the catalog and the dispatch agree.  A call whose name is listed
\* enters sendToFigma and is never answered with the unknown-tool error; a
\* call whose name is not listed never enters sendToFigma and is answered
\* with exactly that error.  A step of the list handler changes nothing but
\* the event log.
C28_UnknownText(name) == ErrorResult(name, "Unknown tool: " \o name)
C28_Step ==
    /\ lastEvent'.type = "list" =>
          UNCHANGED <<now, mainVars, connVars, tableVars, callVars, sendVars>>
    /\ \A k \in DOMAIN calls' :
          /\ (calls'[k].name \in ListedTools) = (promise'[k] # NotCalled)
          /\ (calls'[k].name \notin ListedTools) =
                (CallToolResult(k)' = C28_UnknownText(calls'[k].name))
C28_CatalogMatchesDispatch == [][C28_Step]_vars
C28_Witness ==
    /\ lastEvent.type = "list"
    /\ Len(calls) = 2
    /\ calls[1].name = "ping"
    /\ promise[1].state = "fulfilled"
    /\ ~CallToolResult(1).isError
    /\ calls[2].name = "get_selection"
    /\ CallToolResult(2) = C28_UnknownText("get_selection")

\* C29 (as claimed): for every tool_request the plugin handled it posted
\* exactly one message, a tool_response with the request's id; the response
\* has success FALSE and an error text if the tool is not one of the
\* registered tools or its handler threw, and success TRUE with the
\* handler's data otherwise; handling a message of any other type posts no
\* tool_response.
RegisteredTools == {"ping"}
C29_ReplyDiscipline ==
    \A i \in DOMAIN received :
        LET msg == received[i]
            out == posted[i]
        IN  IF msg.type = "tool_request"
            THEN /\ Len(out) = 1
                 /\ out[1].type = "tool_response"
                 /\ out[1].id = msg.id
                 /\ IF msg.tool \notin RegisteredTools
                       \/ PingHandler(msg.args).threw
                    THEN /\ ~out[1].success
                         /\ out[1].error \notin {Undefined, ""}
                    ELSE /\ out[1].success
                         /\ out[1].data = PingHandler(msg.args).value
            ELSE \A j \in DOMAIN out : out[j].type # "tool_response"

\* C30 (as claimed): once a call has ended, the tool handler's result is a
\* success (no isError) exactly when the promise of sendToFigma was
\* fulfilled, whatever value it was fulfilled with.
C30_SuccessIffResolved ==
    \A k \in DOMAIN calls :
        promise[k].state # "pending" =>
            (~CallToolResult(k).isError) = (promise[k].state = "fulfilled")

\* C31 (as claimed): when the load of the requested font failed and the load
\* of the fallback succeeded, the handler ends with the node created, its
\* characters set, and Inter Regular as its font.
C31_FontFallback ==
    (/\ textJob.pc \in {"done", "threw"}
     /\ ~textJob.loadOk
     /\ textJob.fallbackOk
     /\ textJob.parentId # "missing") =>
        /\ textJob.pc = "done"
        /\ textJob.node.characters = textJob.text
        /\ textJob.node.fontName = FallbackFont

\* C32: the table and the timers stay in step.  The ids with an entry are
\* exactly the ids with an armed timer, and exactly the ids of the calls
\* whose promise is pending; each entry holds its own armed timer; when no
\* call is pending the table is empty and no timer is armed.
C32_TableAndTimers ==
    /\ DOMAIN pendingRequests = {t.id : t \in timers}
    /\ DOMAIN pendingRequests =
          {calls[k].requestId : k \in {j \in DOMAIN calls :
                                          promise[j].state = "pending"}}
    /\ \A id \in DOMAIN pendingRequests :
          /\ pendingRequests[id].timeout \in timers
          /\ promise[pendingRequests[id].call].state = "pending"
    /\ \A t \in timers : pendingRequests[t.id].timeout = t
    /\ (\A k \in DOMAIN calls : promise[k].state # "pending")
          => (pendingRequests = << >> /\ timers = {})
C32_Witness ==
    /\ Len(calls) = 2
    /\ promise[1].state = "fulfilled"
    /\ promise[2] = Pending
    /\ DOMAIN pendingRequests = {calls[2].requestId}
    /\ Cardinality(timers) = 1
    /\ lastEvent.type = "tool_response"

\* C33: check, registration and send are one step.  A step that writes an
\* envelope starts with a stored handle that is live and OPEN, leaves the
\* connection as it found it, and the entry it registers remembers that
\* same handle.
C33_Step ==
    (CallStep /\ Len(sent') = Len(sent) + 1) =>
        LET id == sent'[Len(sent')].id
        IN  /\ figmaConnection # Null
            /\ readyState = "OPEN"
            /\ handles[figmaConnection] = "LIVE"
            /\ UNCHANGED connVars
            /\ lastEvent'.conn = figmaConnection
            /\ id \in DOMAIN pendingRequests' =>
                  pendingRequests'[id].conn = figmaConnection
C33_CheckThenSend == [][C33_Step]_vars
C33_Witness ==
    /\ lastEvent.type = "call"
    /\ figmaConnection = 2
    /\ readyState = "OPEN"
    /\ handles[1] = "LIVE"
    /\ sent # << >>
    /\ sent[Len(sent)].ok
    /\ sent[Len(sent)].id \in DOMAIN pendingRequests
    /\ pendingRequests[sent[Len(sent)].id].conn = 2

\* C34: a Result whose id has an entry settles that entry's call whichever
\* live handle it arrives on.  When it arrives on a handle that is not the
\* stored one, or not the one the request was sent on, the call is settled
\* with the Result's outcome, the entry removed and its timer cleared, as
\* on the stored handle.
C34_Step ==
    \A m \in ResultFrames :
        m.id \in DOMAIN pendingRequests =>
            LET pending == pendingRequests[m.id]
            IN  \/ lastEvent'.type # "tool_response"
                \/ (lastEvent'.conn = figmaConnection
                       /\ lastEvent'.conn = pending.conn)
                \/ /\ promise'[pending.call] =
                         (IF m.success THEN Fulfilled(m.data)
                          ELSE Rejected(IF m.error \in {Undefined, ""}
                                        THEN UnknownFigmaError ELSE m.error))
                   /\ m.id \notin DOMAIN pendingRequests'
                   /\ pending.timeout \notin timers'
                \/ ~Delivered(m)
C34_AnyLiveConnection == [][C34_Step]_vars
C34_Witness ==
    /\ lastEvent.type = "tool_response"
    /\ figmaConnection = 2
    /\ lastEvent.conn = 1
    /\ Len(calls) = 1
    /\ promise[1] = Fulfilled("hi")
    /\ pendingRequests = << >>
    /\ timers = {}

\* A stored handle whose transport is no longer open and whose close event
\* has not been delivered.
TransportNotOpen ==
    /\ figmaConnection # Null
    /\ readyState # "OPEN"
    /\ handles[figmaConnection] = "LIVE"
\* A ping entered in such a state is rejected with the not-connected error
\* and leaves the table, the timers and the data plane alone; the step in
\* which the transport leaves OPEN settles no call.
C35_NewInvokes ==
    /\ (readyState = "OPEN" /\ readyState' = "CLOSING") =>
          UNCHANGED <<tableVars, callVars, figmaConnection, isConnected>>
    /\ (TransportNotOpen /\ CallStep /\ calls'[Len(calls')].name = "ping") =>
          /\ promise'[Len(calls')] = Rejected(NotConnectedError)
          /\ UNCHANGED <<tableVars, sent, connVars>>
          /\ \A k \in DOMAIN promise : promise'[k] = promise[k]

\* C35 (as claimed): connectivity follows the transport, and a call pending
\* while the stored handle's transport is not open changes only in a step
\* that is a close event or its timeout.
C35_ClaimedStep ==
    /\ C35_NewInvokes
    /\ TransportNotOpen =>
          \A id \in DOMAIN pendingRequests :
              LET k == pendingRequests[id].call
              IN  promise'[k] # promise[k] =>
                     \/ \E ws \in Conns : CloseStep(ws)
                     \/ /\ lastEvent'.type = "timeout"
                        /\ promise'[k] = Rejected(TimeoutError)
C35_OnlyCloseOrDeadline == [][C35_ClaimedStep]_vars

\* C35 (amended): connectivity follows the transport.  While a handle is
\* stored whose readyState is not OPEN and whose close event has not been
\* delivered, a ping is rejected with the not-connected error and leaves the
\* table, the timers and the data plane alone; the step in which the
\* transport leaves OPEN settles no call, and a call pending in such a state
\* changes only in a step that is a close event, its own timeout or the
\* delivery of its Result on a socket that is still live.
C35_Step ==
    /\ C35_NewInvokes
    /\ TransportNotOpen =>
          \A id \in DOMAIN pendingRequests :
              LET k == pendingRequests[id].call
              IN  promise'[k] # promise[k] =>
                     \/ \E ws \in Conns : CloseStep(ws)
                     \/ /\ lastEvent'.type = "timeout"
                        /\ promise'[k] = Rejected(TimeoutError)
                     \/ /\ lastEvent'.type = "tool_response"
                        /\ lastEvent'.id = id
                        /\ handles[lastEvent'.conn] = "LIVE"
C35_TransportDecides == [][C35_Step]_vars
\* C35 witness: handle 2 is stored and its transport is closing; the ping
\* entered in that state was rejected with the not-connected error, and the
\* call sent earlier on handle 1 stayed pending until its Result arrived on
\* handle 1.
C35_Witness ==
    /\ TransportNotOpen
    /\ figmaConnection = 2
    /\ lastEvent.type = "tool_response"
    /\ lastEvent.conn = 1
    /\ Len(calls) = 2
    /\ promise[1] = Fulfilled("hi")
    /\ promise[2] = Rejected(NotConnectedError)
    /\ pendingRequests = << >>
    /\ Len(sent) = 1

\* C36: the flag mirrors the handle.  isConnected is TRUE exactly when a
\* handle is stored, and a step that changes the flag or the handle is the
\* connection handler or the close handler of some socket.
C36_Mirror == isConnected = (figmaConnection # Null)
C36_Step ==
    (figmaConnection' # figmaConnection \/ isConnected' # isConnected) =>
        \E ws \in Conns : ConnectStep(ws) \/ CloseStep(ws)
C36_FlagMirrorsHandle == [](C36_Mirror) /\ [][C36_Step]_vars
C36_Witness ==
    /\ handles[1] = "CLOSED"
    /\ figmaConnection = 2
    /\ isConnected
    /\ lastEvent.type = "connection"

\* C37: with d = min(requested depth or 1, 5), a finished scan returned
\* only nodes at most d levels below the frame, each at most once, each
\* with a level between 0 and d - 1, and no more nodes than the tree has.
\* It returned exactly the nodes within d levels that pass the filter, and
\* the level of each is the number of its ancestors below the frame that
\* pass the filter: the descendants of a rejected node are scanned and keep
\* the level the rejected node would have had.
RECURSIVE TreeDepth(_, _)
TreeDepth(parent, n) ==
    IF n = Frame0 THEN 0 ELSE 1 + TreeDepth(parent, parent[n])
RECURSIVE AcceptedAncestors(_, _)
AcceptedAncestors(job, n) ==
    LET up == job.parent[n]
    IN  IF up = Frame0 THEN 0
        ELSE AcceptedAncestors(job, up)
                + (IF job.filter = Undefined \/ job.type[up] = job.filter
                   THEN 1 ELSE 0)
C37_d(job) ==
    LET requested == IF job.depth = 0 THEN 1 ELSE job.depth
    IN  IF requested <= 5 THEN requested ELSE 5
C37_ScanDepthBound ==
    scanJob.pc = "done" =>
        LET d == C37_d(scanJob)
            out == scanJob.children
            returned == {out[i].id : i \in DOMAIN out}
        IN  /\ Len(out) <= Len(scanJob.parent)
            /\ \A i \in DOMAIN out :
                  /\ TreeDepth(scanJob.parent, out[i].id) <= d
                  /\ out[i].level >= 0
                  /\ out[i].level <= d - 1
                  /\ out[i].level = AcceptedAncestors(scanJob, out[i].id)
                  /\ \A j \in DOMAIN out : i # j => out[i].id # out[j].id
            /\ returned =
                  {n \in DOMAIN scanJob.parent :
                      /\ TreeDepth(scanJob.parent, n) <= d
                      /\ (scanJob.filter = Undefined
                             \/ scanJob.type[n] = scanJob.filter)}
C37_Witness ==
    /\ scanJob.pc = "done"
    /\ scanJob.depth = 7
    /\ scanJob.filter = "FRAME"
    /\ \E n \in DOMAIN scanJob.parent :
          TreeDepth(scanJob.parent, n) = 6
    /\ \E i \in DOMAIN scanJob.children :
          LET n == scanJob.children[i].id
          IN  /\ scanJob.parent[n] # Frame0
              /\ scanJob.type[scanJob.parent[n]] = "GROUP"
              /\ scanJob.children[i].level
                    < TreeDepth(scanJob.parent, n) - 1

====
